---- MODULE Spec2Model ----
(***************************************************************************)
(* Model of the yinyouwo attendance-and-billing plugin (src/main.py).      *)
(*                                                                         *)
(* Units: money is counted in cents (6.0 yuan = 600), a discount is a      *)
(* percentage (1.0 = 100, 0.5 = 50), time is in whole seconds and a        *)
(* calendar date is a day number.                                          *)
(*                                                                         *)
(* Every command handler is a coroutine.  It runs without interruption     *)
(* from one await to the next; at "async with _LOCK" the event loop may    *)
(* run another handler.  The lock is taken inside _get_user and inside     *)
(* _update_user, each time for that one call only.                         *)
(***************************************************************************)
EXTENDS Integers, Sequences, FiniteSets, TLC

\* ------------------------------------------------------------ constants
HOURLY_FEE == 600

GRACE_PERIOD_SECONDS == 120

\* an administrator set that every sender belongs to
ADMIN_IDS_Open == {"2331103944", "87654321", "10001", ""}

ADMIN_IDS == {"2331103944", "87654321"}

FEE_PER_30_MINS == HOURLY_FEE \div 2

\* joined_at IS NULL / Python None
None == -1

\* ------------------------------------------------------------ bounds
\* number of commands the handlers accept in one run
MaxOps == 2

\* largest session duration of the fee table specification
MaxDuration == 3700

\* significand width of the floating-point format that holds money and time
\* (binary64 has 53 bits; the rounding it performs is the same at any width)
MantissaBits == 16

\* the concurrently running handler invocations
Procs == {"h1", "h2"}

NoProc == "none"

\* instants at which time.time() is read: a session opened at one and closed at
\* a later one lasts 120 s, 1681 s or 1801 s; one opened at 1 lasts 1801 s or more
TimePoints == {1802, 1922, 3603}

\* calendar dates date.today() returns, as day numbers
Days == {0, 1}

\* the instant of start-up
StartTime == CHOOSE t \in TimePoints : \A x \in TimePoints : t <= x

\* sender identities _get_uid resolves; "" is an unresolved sender
Senders == {"10001", "2331103944", ""}

\* discounts of the fee table specification
FeeDiscounts == {1, 50, 100}

\* ------------------------------------------------------------ float arithmetic
\* whole numbers below this are floats; above it only every q-th one is
MaxExact == 2^MantissaBits

\* the spacing of the floats around n
Ulp(n) ==
    CHOOSE q \in {2^e : e \in 0..10} :
        /\ n \div q < MaxExact
        /\ (q = 1 \/ n \div (q \div 2) >= MaxExact)

\* the float nearest to the number n >= 0, ties to the even significand
Fl(n) ==
    IF n < MaxExact THEN n
    ELSE LET q == Ulp(n)
             lo == (n \div q) * q
         IN  IF 2 * (n - lo) < q THEN lo
             ELSE IF 2 * (n - lo) > q THEN lo + q
             ELSE IF (n \div q) % 2 = 0 THEN lo
             ELSE lo + q

\* x + y and x - y of two floats (x >= y wherever the code subtracts)
FloatAdd(x, y) == Fl(x + y)

FloatSub(x, y) == Fl(x - y)

\* ------------------------------------------------------------ account store
Fields == {"balance", "joined_at", "total_time", "today_date",
           "today_consumption", "discount"}

\* a new row that starts with money on it
DefaultRow_Funded(day) ==
    [balance |-> 100, joined_at |-> None, total_time |-> 0,
     today_date |-> day, today_consumption |-> 0, discount |-> 100]

DefaultRow(day) ==
    [balance |-> 0, joined_at |-> None, total_time |-> 0,
     today_date |-> day, today_consumption |-> 0, discount |-> 100]

\* a rollover that moves the date and keeps the consumption
Rollover_DateOnly(u, day) == [u EXCEPT !.today_date = day]

\* the daily rollover of _get_user
Rollover(u, day) ==
    IF u.today_date # day
    THEN [u EXCEPT !.today_date = day, !.today_consumption = 0]
    ELSE u

\* the dict _get_user returns
GetUserRow(d, q, day) ==
    Rollover(IF q \in DOMAIN d THEN d[q] ELSE DefaultRow(day), day)

\* the table _get_user leaves behind (INSERT of a missing row, UPDATE on rollover)
GetUserDb(d, q, day) ==
    [x \in (DOMAIN d) \cup {q} |-> IF x = q THEN GetUserRow(d, q, day) ELSE d[x]]

\* user.update(updates) on the row re-read by _update_user
ApplyUpdates(u, upd) ==
    [f \in Fields |-> IF f \in DOMAIN upd THEN upd[f] ELSE u[f]]

\* an update that writes the named fields over a blank row, not the stored one
UpdateUserDb_Blank(d, q, upd) ==
    [d EXCEPT ![q] = ApplyUpdates(DefaultRow(d[q].today_date), upd)]

\* the table _update_user leaves behind
UpdateUserDb(d, q, upd) ==
    [d EXCEPT ![q] = ApplyUpdates(d[q], upd)]

\* ------------------------------------------------------------ billing
\* a billing that rounds the units down instead of up
BillingUnits_Floor(duration) == duration \div 1800

\* math.ceil(duration / 1800)
BillingUnits(duration) ==
    IF duration % 1800 = 0 THEN duration \div 1800 ELSE duration \div 1800 + 1

\* billing_units * FEE_PER_30_MINS * discount
FinalFee(duration, discount) ==
    (BillingUnits(duration) * FEE_PER_30_MINS * discount) \div 100

\* duration <= GRACE_PERIOD_SECONDS: the session is closed free of charge
InGrace(duration) == duration <= GRACE_PERIOD_SECONDS

\* what cmd_leave charges for a session of the given duration
LeaveFee(duration, discount) ==
    IF InGrace(duration) THEN 0 ELSE FinalFee(duration, discount)

\* ------------------------------------------------------------ state
VARIABLES
    db,         \* table user_data: identity -> row, for the rows that exist
    lock,       \* _LOCK: the handler holding it, or NoProc
    now,        \* time.time()
    today,      \* date.today()
    started,    \* number of commands accepted so far
    pc,         \* position of each handler invocation
    cmd,        \* the command it runs
    qq,         \* the identity it works on
    arg,        \* amount (cents) of 充值/扣款, rate (percent) of 折扣
    user,       \* the dict returned by its _get_user call
    updates,    \* the dict it passes to _update_user
    duration,   \* cmd_leave: now - joined_at
    final_fee,  \* cmd_leave: the fee it computed
    result,     \* the outcome it reported last
    db0,        \* the table at start-up
    ledger,     \* per identity: credits reported - debits reported - fees reported
    opened,     \* per identity: sessions opened (reported check-ins)
    charges,    \* per identity: charged check-outs reported
    billed,     \* per identity: the durations and, per stored date, the fees of them
    fee_in,     \* fee table: the (duration, discount) under test
    fee_out,    \* fee table: the fees computed for duration and duration + 1
    trip        \* round trip: the table, the amount and the stage of a 充值/扣款 pair

vars == <<db, lock, now, today, started, pc, cmd, qq, arg, user, updates,
          duration, final_fee, result, db0, ledger, opened, charges, billed,
          fee_in, fee_out, trip>>

envVars == <<now, today>>
ghostVars == <<db0, ledger, opened, charges, billed>>
calcVars == <<fee_in, fee_out, trip>>
localVars == <<cmd, qq, arg, user, updates, duration, final_fee>>

Accounts == {"10001", "2331103944"}

NoUser == DefaultRow(0)
NoUpdates == [f \in {} |-> 0]
NoFee == [duration |-> 0, discount |-> 100]
NoBill == [time |-> 0, fees |-> [d \in Days |-> 0]]
NoTrip == [table0 |-> <<>>, table |-> <<>>, amount |-> 0, stage |-> "none"]

\* tables a start-up can find on disk: a fresh install, or one account left by
\* earlier runs (funded, in or out of a session, with or without a charge today)
InitRows ==
    { [DefaultRow(0) EXCEPT !.balance = 600, !.joined_at = 1],
      [DefaultRow(0) EXCEPT !.balance = 300, !.total_time = 1800,
                            !.today_consumption = 300],
      [DefaultRow(0) EXCEPT !.balance = 300, !.total_time = 1800,
                            !.today_consumption = 300, !.joined_at = 1] }

InitTables ==
    { [x \in {} |-> NoUser] } \cup { [x \in {"10001"} |-> r] : r \in InitRows }

Init ==
    /\ db \in InitTables
    /\ db0 = db
    /\ lock = NoProc
    /\ now = StartTime
    /\ today = 0
    /\ started = 0
    /\ pc = [p \in Procs |-> "idle"]
    /\ cmd = [p \in Procs |-> "none"]
    /\ qq = [p \in Procs |-> ""]
    /\ arg = [p \in Procs |-> 0]
    /\ user = [p \in Procs |-> NoUser]
    /\ updates = [p \in Procs |-> NoUpdates]
    /\ duration = [p \in Procs |-> 0]
    /\ final_fee = [p \in Procs |-> 0]
    /\ result = [p \in Procs |-> "none"]
    /\ ledger = [a \in Accounts |-> 0]
    /\ opened = [a \in Accounts |->
                   IF a \in DOMAIN db /\ db[a].joined_at # None THEN 1 ELSE 0]
    /\ charges = [a \in Accounts |-> 0]
    /\ billed = [a \in Accounts |->
                   IF a \in DOMAIN db
                   THEN [time |-> db[a].total_time,
                         fees |-> [d \in Days |-> IF d = db[a].today_date
                                                  THEN db[a].today_consumption ELSE 0]]
                   ELSE NoBill]
    /\ fee_in = NoFee
    /\ fee_out = <<>>
    /\ trip = NoTrip

\* ------------------------------------------------------------ environment
Tick ==
    /\ lock = NoProc
    /\ \E t \in TimePoints : t > now /\ now' = t
    /\ UNCHANGED <<db, lock, today, started, pc, localVars, result, ghostVars, calcVars>>

DayChange ==
    /\ lock = NoProc
    /\ \E d \in Days : d > today /\ today' = d
    /\ UNCHANGED <<db, lock, now, started, pc, localVars, result, ghostVars, calcVars>>

\* ------------------------------------------------------------ handler steps
\* a handler is launched: the part of the handler before its first await
Launch(p, c, q, a) ==
    /\ pc' = [pc EXCEPT ![p] = "get_wait"]
    /\ cmd' = [cmd EXCEPT ![p] = c]
    /\ qq' = [qq EXCEPT ![p] = q]
    /\ arg' = [arg EXCEPT ![p] = a]
    /\ user' = [user EXCEPT ![p] = NoUser]
    /\ updates' = [updates EXCEPT ![p] = NoUpdates]
    /\ duration' = [duration EXCEPT ![p] = 0]
    /\ final_fee' = [final_fee EXCEPT ![p] = 0]
    /\ result' = [result EXCEPT ![p] = "running"]

\* a handler returns before any store call
Reject(p, c, res) ==
    /\ pc' = pc
    /\ cmd' = [cmd EXCEPT ![p] = "none"]
    /\ qq' = [qq EXCEPT ![p] = ""]
    /\ arg' = [arg EXCEPT ![p] = 0]
    /\ user' = [user EXCEPT ![p] = NoUser]
    /\ updates' = [updates EXCEPT ![p] = NoUpdates]
    /\ duration' = [duration EXCEPT ![p] = 0]
    /\ final_fee' = [final_fee EXCEPT ![p] = 0]
    /\ result' = [result EXCEPT ![p] = res]

\* a handler returns (or raises) after a store call
Return(p, res) ==
    /\ pc' = [pc EXCEPT ![p] = "idle"]
    /\ cmd' = [cmd EXCEPT ![p] = "none"]
    /\ result' = [result EXCEPT ![p] = res]
    /\ user' = [user EXCEPT ![p] = NoUser]
    /\ updates' = [updates EXCEPT ![p] = NoUpdates]
    /\ arg' = [arg EXCEPT ![p] = 0]
    /\ duration' = [duration EXCEPT ![p] = 0]
    /\ final_fee' = [final_fee EXCEPT ![p] = 0]

\* a handler goes on from _get_user to its _update_user call
CallUpdate(p, u, upd, d, fee) ==
    /\ pc' = [pc EXCEPT ![p] = "upd_wait"]
    /\ cmd' = cmd
    /\ user' = [user EXCEPT ![p] = u]
    /\ updates' = [updates EXCEPT ![p] = upd]
    /\ duration' = [duration EXCEPT ![p] = d]
    /\ final_fee' = [final_fee EXCEPT ![p] = fee]
    /\ UNCHANGED <<result, arg>>

\* "async with _LOCK" of _get_user
GetUser_Acquire(p) ==
    /\ pc[p] = "get_wait"
    /\ lock = NoProc
    /\ lock' = p
    /\ pc' = [pc EXCEPT ![p] = "get_cs"]
    /\ UNCHANGED <<db, envVars, started, localVars, result, ghostVars, calcVars>>

\* "async with _LOCK" of _update_user
UpdateUser_Acquire(p) ==
    /\ pc[p] = "upd_wait"
    /\ lock = NoProc
    /\ lock' = p
    /\ pc' = [pc EXCEPT ![p] = "upd_cs"]
    /\ UNCHANGED <<db, envVars, started, localVars, result, ghostVars, calcVars>>

\* a _get_user that returns without giving the lock back
GetUserBody_KeepLock(p) ==
    /\ pc[p] = "get_cs"
    /\ lock = p
    /\ db' = GetUserDb(db, qq[p], today)
    /\ lock' = lock

\* body of _get_user, run with the lock held and released at its end
GetUserBody(p) ==
    /\ pc[p] = "get_cs"
    /\ lock = p
    /\ db' = GetUserDb(db, qq[p], today)
    /\ lock' = NoProc

\* _update_user raises ValueError when the row does not exist
UpdateUserRaises(d, q) == q \notin DOMAIN d

\* body of _update_user, run with the lock held and released at its end (also
\* when it raises)
UpdateUserBody(p) ==
    /\ pc[p] = "upd_cs"
    /\ lock = p
    /\ db' = IF UpdateUserRaises(db, qq[p]) THEN db
             ELSE UpdateUserDb(db, qq[p], updates[p])
    /\ lock' = NoProc

\* a command is accepted from the dispatcher
Accept(p) ==
    /\ lock = NoProc
    /\ pc[p] = "idle"
    /\ started < MaxOps
    /\ started' = started + 1

\* ------------------------------------------------------------ cmd_attend
AttendUpdates(t) == [joined_at |-> t]

\* a check that takes every account for idle
AlreadyActive_Never(u) == FALSE

\* user["joined_at"] is not None
AlreadyActive(u) == u.joined_at # None

cmd_attend(p) ==
    /\ Accept(p)
    /\ \E uid \in Senders :
          IF uid = "" THEN Reject(p, "attend", "no_uid")
          ELSE Launch(p, "attend", uid, 0)
    /\ UNCHANGED <<db, lock, envVars, ghostVars, calcVars>>

cmd_attend_get_user(p) ==
    /\ cmd[p] = "attend"
    /\ GetUserBody(p)
    /\ LET u == GetUserRow(db, qq[p], today) IN
          IF AlreadyActive(u)
          THEN Return(p, "already_active")
          ELSE CallUpdate(p, u, AttendUpdates(now), 0, 0)
    /\ UNCHANGED <<envVars, started, qq,
                   ghostVars, calcVars>>

cmd_attend_update_user(p) ==
    /\ cmd[p] = "attend"
    /\ UpdateUserBody(p)
    /\ IF UpdateUserRaises(db, qq[p])
       THEN Return(p, "not_found") /\ opened' = opened
       ELSE /\ Return(p, "ok_attend")
            /\ opened' = [opened EXCEPT ![qq[p]] = @ + 1]
    /\ UNCHANGED <<envVars, started, qq,
                   db0, ledger, charges, billed, calcVars>>

\* ------------------------------------------------------------ cmd_leave
\* a free check-out that also clears the cumulative time
GraceUpdates_Reset == [joined_at |-> None, total_time |-> 0]

GraceUpdates == [joined_at |-> None]

\* an affordability test that never refuses
CannotAfford_Never(balance, fee) == FALSE

\* user["balance"] < final_fee, user["balance"] < amount
CannotAfford(balance, fee) == balance < fee

LeaveUpdates(u, d, fee) ==
    [balance |-> FloatSub(u.balance, fee),
     today_consumption |-> FloatAdd(u.today_consumption, fee),
     total_time |-> FloatAdd(u.total_time, d),
     joined_at |-> None]

cmd_leave(p) ==
    /\ Accept(p)
    /\ \E uid \in Senders :
          IF uid = "" THEN Reject(p, "leave", "no_uid")
          ELSE Launch(p, "leave", uid, 0)
    /\ UNCHANGED <<db, lock, envVars, ghostVars, calcVars>>

cmd_leave_get_user(p) ==
    /\ cmd[p] = "leave"
    /\ GetUserBody(p)
    /\ LET u == GetUserRow(db, qq[p], today)
           d == now - u.joined_at
           fee == FinalFee(d, u.discount)
       IN  IF ~AlreadyActive(u) THEN Return(p, "not_checked_in")
           ELSE IF InGrace(d) THEN CallUpdate(p, u, GraceUpdates, d, 0)
           ELSE IF CannotAfford(u.balance, fee) THEN Return(p, "insufficient")
           ELSE CallUpdate(p, u, LeaveUpdates(u, d, fee), d, fee)
    /\ UNCHANGED <<envVars, started, qq, ghostVars, calcVars>>

cmd_leave_update_user(p) ==
    /\ cmd[p] = "leave"
    /\ UpdateUserBody(p)
    /\ IF UpdateUserRaises(db, qq[p])
       THEN Return(p, "not_found") /\ UNCHANGED <<ledger, charges, billed>>
       ELSE IF InGrace(duration[p])
       THEN Return(p, "ok_free") /\ UNCHANGED <<ledger, charges, billed>>
       ELSE /\ Return(p, "ok_charged")
            /\ ledger' = [ledger EXCEPT ![qq[p]] = @ - final_fee[p]]
            /\ charges' = [charges EXCEPT ![qq[p]] = @ + 1]
            /\ billed' = [billed EXCEPT
                             ![qq[p]].time = @ + duration[p],
                             ![qq[p]].fees[db[qq[p]].today_date] = @ + final_fee[p]]
    /\ UNCHANGED <<envVars, started, qq,
                   db0, opened, calcVars>>

\* ------------------------------------------------------------ admin commands
\* the tokens of evt.message_str.split() after the command word
TargetTokens == {"10001", "abc"}
AmountTokens == {"3", "0", "-3", "abc"}
RateTokens == {"50%", "0.5", "100%", "0", "-0.5", "150%", "abc"}

\* str.isdigit()
IsDigit(tok) == tok \in {"10001", "2331103944", "87654321"}

\* float(tok), in hundredths; tokens outside the domain raise ValueError
FloatValue ==
    [tok \in {"3", "6", "0", "-3", "50", "100", "150", "0.5", "-0.5"} |->
        CASE tok = "3" -> 300
          [] tok = "6" -> 600
          [] tok = "0" -> 0
          [] tok = "-3" -> 0 - 300
          [] tok = "-0.5" -> 0 - 50
          [] tok = "50" -> 5000
          [] tok = "100" -> 10000
          [] tok = "150" -> 15000
          [] tok = "0.5" -> 50]

IsFloat(tok) == tok \in DOMAIN FloatValue

\* str.endswith('%') and str.strip('%')
EndsWithPercent(tok) == tok \in {"50%", "100%", "150%"}

StripPercent(tok) ==
    CASE tok = "50%" -> "50"
      [] tok = "100%" -> "100"
      [] tok = "150%" -> "150"
      [] OTHER -> tok

\* the messages an admin command can arrive with: <<word, target, value>>, or a
\* message with a token missing
Messages(word, values) ==
    { <<word, t, v>> : t \in TargetTokens, v \in values } \cup { <<word, "10001">> }

\* the events an admin command can arrive with, as <<sender, message>>: every
\* message from an administrator, the messages naming 10001 from anybody else
Events(word, values) ==
    { <<s, m>> \in Senders \X Messages(word, values) :
          s \in ADMIN_IDS \/ (Len(m) = 3 /\ m[2] = "10001") }

\* an amount check that refuses only what float() refuses
AmountRejected_Lax(tok) == ~IsFloat(tok)

\* amount = float(amount_str); amount <= 0 raises as well
AmountRejected(tok) == ~IsFloat(tok) \/ FloatValue[tok] <= 0

\* what _admin_op decides before its first await, on the event of sender op_qq
\* with the message parts: the refusal it returns, or "proceed"
admin_op_checks(op_qq, parts) ==
    IF op_qq \notin ADMIN_IDS THEN "denied"
    ELSE IF Len(parts) # 3 THEN "bad_format"
    ELSE IF ~IsDigit(parts[2]) THEN "bad_qq"
    ELSE IF AmountRejected(parts[3]) THEN "bad_amount"
    ELSE "proceed"

admin_op(p, op_type) ==
    /\ Accept(p)
    /\ \E evt \in Events(op_type, AmountTokens) :
          LET checks == admin_op_checks(evt[1], evt[2]) IN
          IF checks # "proceed" THEN Reject(p, op_type, checks)
          ELSE Launch(p, op_type, evt[2][2], FloatValue[evt[2][3]])
    /\ UNCHANGED <<db, lock, envVars, ghostVars, calcVars>>

cmd_charge(p) == admin_op(p, "charge")

cmd_deduct(p) == admin_op(p, "deduct")

ChargeUpdates(u, amount) == [balance |-> FloatAdd(u.balance, amount)]

\* a debit that takes the amount twice
DeductUpdates_Twice(u, amount) == [balance |-> u.balance - 2 * amount]

DeductUpdates(u, amount) == [balance |-> FloatSub(u.balance, amount)]

admin_op_get_user(p) ==
    /\ cmd[p] \in {"charge", "deduct"}
    /\ GetUserBody(p)
    /\ LET u == GetUserRow(db, qq[p], today) IN
          IF cmd[p] = "charge"
          THEN CallUpdate(p, u, ChargeUpdates(u, arg[p]), 0, 0)
          ELSE IF CannotAfford(u.balance, arg[p])
          THEN Return(p, "debit_insufficient")
          ELSE CallUpdate(p, u, DeductUpdates(u, arg[p]), 0, 0)
    /\ UNCHANGED <<envVars, started, qq,
                   ghostVars, calcVars>>

admin_op_update_user(p) ==
    /\ cmd[p] \in {"charge", "deduct"}
    /\ UpdateUserBody(p)
    /\ IF UpdateUserRaises(db, qq[p])
       THEN Return(p, "not_found") /\ ledger' = ledger
       ELSE IF cmd[p] = "charge"
       THEN /\ Return(p, "ok_credit")
            /\ ledger' = [ledger EXCEPT ![qq[p]] = @ + arg[p]]
       ELSE /\ Return(p, "ok_debit")
            /\ ledger' = [ledger EXCEPT ![qq[p]] = @ - arg[p]]
    /\ UNCHANGED <<envVars, started, qq,
                   db0, opened, charges, billed, calcVars>>

\* rate of cmd_discount, in percent
ParseRate(tok) ==
    IF EndsWithPercent(tok) THEN FloatValue[StripPercent(tok)] \div 100
    ELSE FloatValue[tok]

\* a rate check that refuses only what float() refuses
RateRejected_Lax(tok) == ~IsFloat(StripPercent(tok))

RateRejected(tok) ==
    \/ ~IsFloat(StripPercent(tok))
    \/ ~(0 < ParseRate(tok) /\ ParseRate(tok) <= 100)

DiscountUpdates(rate) == [discount |-> rate]

\* what cmd_discount decides before its first await, on the event of sender
\* op_qq with the message parts: the refusal it returns, or "proceed"
cmd_discount_checks(op_qq, parts) ==
    IF op_qq \notin ADMIN_IDS THEN "denied"
    ELSE IF Len(parts) # 3 THEN "bad_format"
    ELSE IF ~IsDigit(parts[2]) THEN "bad_qq"
    ELSE IF RateRejected(parts[3]) THEN "bad_rate"
    ELSE "proceed"

cmd_discount(p) ==
    /\ Accept(p)
    /\ \E evt \in Events("discount", RateTokens) :
          LET checks == cmd_discount_checks(evt[1], evt[2]) IN
          IF checks # "proceed" THEN Reject(p, "discount", checks)
          ELSE Launch(p, "discount", evt[2][2], ParseRate(evt[2][3]))
    /\ UNCHANGED <<db, lock, envVars, ghostVars, calcVars>>

cmd_discount_get_user(p) ==
    /\ cmd[p] = "discount"
    /\ GetUserBody(p)
    /\ CallUpdate(p, GetUserRow(db, qq[p], today), DiscountUpdates(arg[p]), 0, 0)
    /\ UNCHANGED <<envVars, started, qq,
                   ghostVars, calcVars>>

cmd_discount_update_user(p) ==
    /\ cmd[p] = "discount"
    /\ UpdateUserBody(p)
    /\ Return(p, IF UpdateUserRaises(db, qq[p]) THEN "not_found" ELSE "ok_discount")
    /\ UNCHANGED <<envVars, started, qq,
                   ghostVars, calcVars>>

\* ------------------------------------------------------------ point queries
cmd_info(p) ==
    /\ Accept(p)
    /\ \E uid \in Senders :
          IF uid = "" THEN Reject(p, "info", "no_uid")
          ELSE Launch(p, "info", uid, 0)
    /\ UNCHANGED <<db, lock, envVars, ghostVars, calcVars>>

cmd_balance(p) ==
    /\ Accept(p)
    /\ \E uid \in Senders :
          IF uid = "" THEN Reject(p, "balance", "no_uid")
          ELSE Launch(p, "balance", uid, 0)
    /\ UNCHANGED <<db, lock, envVars, ghostVars, calcVars>>

query_get_user(p) ==
    /\ cmd[p] \in {"info", "balance"}
    /\ GetUserBody(p)
    /\ Return(p, "ok_query")
    /\ UNCHANGED <<envVars, started, qq,
                   ghostVars, calcVars>>

\* ------------------------------------------------------------ table queries
\* cmd_list and cmd_rank read the table themselves, under their own
\* "async with _LOCK"
LaunchScan(p, c) ==
    /\ pc' = [pc EXCEPT ![p] = "scan_wait"]
    /\ cmd' = [cmd EXCEPT ![p] = c]
    /\ qq' = [qq EXCEPT ![p] = ""]
    /\ arg' = [arg EXCEPT ![p] = 0]
    /\ user' = [user EXCEPT ![p] = NoUser]
    /\ updates' = [updates EXCEPT ![p] = NoUpdates]
    /\ duration' = [duration EXCEPT ![p] = 0]
    /\ final_fee' = [final_fee EXCEPT ![p] = 0]
    /\ result' = [result EXCEPT ![p] = "running"]

Scan_Acquire(p) ==
    /\ pc[p] = "scan_wait"
    /\ lock = NoProc
    /\ lock' = p
    /\ pc' = [pc EXCEPT ![p] = "scan_cs"]
    /\ UNCHANGED <<db, envVars, started, localVars, result, ghostVars, calcVars>>

\* SELECT ... WHERE joined_at IS NOT NULL
ActiveRows(d) == {x \in DOMAIN d : d[x].joined_at # None}

cmd_list(p) ==
    /\ Accept(p)
    /\ LaunchScan(p, "list")
    /\ UNCHANGED <<db, lock, envVars, ghostVars, calcVars>>

cmd_list_scan(p) ==
    /\ cmd[p] = "list"
    /\ pc[p] = "scan_cs"
    /\ lock = p
    /\ lock' = NoProc
    /\ Return(p, IF ActiveRows(db) = {} THEN "empty_list" ELSE "ok_list")
    /\ UNCHANGED <<db, envVars, started, qq, ghostVars, calcVars>>

cmd_rank(p) ==
    /\ Accept(p)
    /\ LaunchScan(p, "rank")
    /\ UNCHANGED <<db, lock, envVars, ghostVars, calcVars>>

cmd_rank_scan(p) ==
    /\ cmd[p] = "rank"
    /\ pc[p] = "scan_cs"
    /\ lock = p
    /\ lock' = NoProc
    /\ Return(p, IF DOMAIN db = {} THEN "empty_rank" ELSE "ok_rank")
    /\ UNCHANGED <<db, envVars, started, qq, ghostVars, calcVars>>

\* ------------------------------------------------------------ specification
Next ==
    \/ Tick
    \/ DayChange
    \/ \E p \in Procs :
          \/ GetUser_Acquire(p)
          \/ UpdateUser_Acquire(p)
          \/ cmd_attend(p)
          \/ cmd_attend_get_user(p)
          \/ cmd_attend_update_user(p)
          \/ cmd_leave(p)
          \/ cmd_leave_get_user(p)
          \/ cmd_leave_update_user(p)
          \/ cmd_charge(p)
          \/ cmd_deduct(p)
          \/ admin_op_get_user(p)
          \/ admin_op_update_user(p)
          \/ cmd_discount(p)
          \/ cmd_discount_get_user(p)
          \/ cmd_discount_update_user(p)
          \/ cmd_info(p)
          \/ cmd_balance(p)
          \/ query_get_user(p)
          \/ Scan_Acquire(p)
          \/ cmd_list(p)
          \/ cmd_list_scan(p)
          \/ cmd_rank(p)
          \/ cmd_rank_scan(p)

Spec == Init /\ [][Next]_vars

\* ------------------------------------------------------------ scheduling
\* handler p enters an "async with _LOCK"
AcquireStep(p) ==
    \/ GetUser_Acquire(p)
    \/ UpdateUser_Acquire(p)
    \/ Scan_Acquire(p)

\* handler p runs on from inside the lock to its next await or to its return
RunStep(p) ==
    \/ cmd_attend_get_user(p)
    \/ cmd_attend_update_user(p)
    \/ cmd_leave_get_user(p)
    \/ cmd_leave_update_user(p)
    \/ admin_op_get_user(p)
    \/ admin_op_update_user(p)
    \/ cmd_discount_get_user(p)
    \/ cmd_discount_update_user(p)
    \/ query_get_user(p)
    \/ cmd_list_scan(p)
    \/ cmd_rank_scan(p)

\* the event loop runs every coroutine that is ready, and asyncio.Lock wakes
\* its waiters in the order they arrived: a handler that keeps finding the lock
\* free again and again gets it
Fairness ==
    \A p \in Procs : WF_vars(RunStep(p)) /\ SF_vars(AcquireStep(p))

SpecLive == Init /\ [][Next]_vars /\ Fairness

\* ------------------------------------------------------------ fee table
\* the fee cmd_leave computes, tabulated over session durations and discounts
FeeInit ==
    /\ db = [x \in {} |-> NoUser]
    /\ db0 = db
    /\ lock = NoProc
    /\ now = StartTime
    /\ today = 0
    /\ started = 0
    /\ pc = [p \in Procs |-> "idle"]
    /\ cmd = [p \in Procs |-> "none"]
    /\ qq = [p \in Procs |-> ""]
    /\ arg = [p \in Procs |-> 0]
    /\ user = [p \in Procs |-> NoUser]
    /\ updates = [p \in Procs |-> NoUpdates]
    /\ duration = [p \in Procs |-> 0]
    /\ final_fee = [p \in Procs |-> 0]
    /\ result = [p \in Procs |-> "none"]
    /\ ledger = [a \in Accounts |-> 0]
    /\ opened = [a \in Accounts |-> 0]
    /\ charges = [a \in Accounts |-> 0]
    /\ billed = [a \in Accounts |-> NoBill]
    /\ fee_in \in [duration : 0..MaxDuration, discount : FeeDiscounts]
    /\ fee_out = <<>>
    /\ trip = NoTrip

FeeCompute ==
    /\ fee_out = <<>>
    /\ fee_out' = << LeaveFee(fee_in.duration, fee_in.discount),
                     LeaveFee(fee_in.duration + 1, fee_in.discount) >>
    /\ UNCHANGED <<db, lock, envVars, started, pc, localVars, result, ghostVars, fee_in, trip>>

FeeNext == FeeCompute

SpecFee == FeeInit /\ [][FeeNext]_vars

\* ------------------------------------------------------------ round trip
\* 充值 x A followed by 扣款 x A from an administrator, each handler running from
\* its _get_user to its _update_user with no other handler in between, on an
\* account loaded on the day of its today_date
TripAccount == "10001"

\* balances and amounts float() can return
TripBalances == {0, 1, 3, 300}
TripAmounts == {2^e : e \in 0..(MantissaBits + 2)} \cup {3, 300}

TripTables ==
    { [x \in {} |-> NoUser] } \cup
    { [x \in {TripAccount} |-> [DefaultRow(0) EXCEPT !.balance = b]] : b \in TripBalances }

TripInit ==
    /\ db = [x \in {} |-> NoUser]
    /\ db0 = db
    /\ lock = NoProc
    /\ now = StartTime
    /\ today = 0
    /\ started = 0
    /\ pc = [p \in Procs |-> "idle"]
    /\ cmd = [p \in Procs |-> "none"]
    /\ qq = [p \in Procs |-> ""]
    /\ arg = [p \in Procs |-> 0]
    /\ user = [p \in Procs |-> NoUser]
    /\ updates = [p \in Procs |-> NoUpdates]
    /\ duration = [p \in Procs |-> 0]
    /\ final_fee = [p \in Procs |-> 0]
    /\ result = [p \in Procs |-> "none"]
    /\ ledger = [a \in Accounts |-> 0]
    /\ opened = [a \in Accounts |-> 0]
    /\ charges = [a \in Accounts |-> 0]
    /\ billed = [a \in Accounts |-> NoBill]
    /\ fee_in = NoFee
    /\ fee_out = <<>>
    /\ \E d \in TripTables, a \in TripAmounts :
          trip = [table0 |-> d, table |-> d, amount |-> a, stage |-> "start"]

\* _admin_op with op_type 充值: _get_user, new_balance += amount, _update_user
TripCredit ==
    /\ trip.stage = "start"
    /\ LET u == GetUserRow(trip.table, TripAccount, today)
           d == GetUserDb(trip.table, TripAccount, today)
       IN  trip' = [trip EXCEPT
                      !.table = UpdateUserDb(d, TripAccount, ChargeUpdates(u, trip.amount)),
                      !.stage = "credited"]
    /\ UNCHANGED <<db, lock, envVars, started, pc, localVars, result, ghostVars,
                   fee_in, fee_out>>

\* _admin_op with op_type 扣款: _get_user, the balance test, new_balance -= amount,
\* _update_user
TripDebit ==
    /\ trip.stage = "credited"
    /\ LET u == GetUserRow(trip.table, TripAccount, today)
           d == GetUserDb(trip.table, TripAccount, today)
       IN  IF CannotAfford(u.balance, trip.amount)
           THEN trip' = [trip EXCEPT !.table = d, !.stage = "refused"]
           ELSE trip' = [trip EXCEPT
                           !.table = UpdateUserDb(d, TripAccount, DeductUpdates(u, trip.amount)),
                           !.stage = "done"]
    /\ UNCHANGED <<db, lock, envVars, started, pc, localVars, result, ghostVars,
                   fee_in, fee_out>>

TripNext == TripCredit \/ TripDebit

SpecTrip == TripInit /\ [][TripNext]_vars

\* ============================================================ claims
\* the least whole number of 1800 s units that covers d seconds
RefUnits(d) == CHOOSE n \in 0..(d + 1) : n * 1800 >= d /\ (n - 1) * 1800 < d

\* elapsedFee at 6.0 per hour, in cents, for a discount of k percent
RefFee(d, k) == IF d <= 120 THEN 0 ELSE RefUnits(d) * 3 * k

\* handler p completes the _get_user call of command c in this step
GetStep(p, c) == pc[p] = "get_cs" /\ cmd[p] = c /\ pc'[p] # "get_cs"

\* handler p completes the _update_user call of command c in this step
UpdStep(p, c) == pc[p] = "upd_cs" /\ cmd[p] = c /\ pc'[p] # "upd_cs"

\* the commands that load an account through _get_user
GetCmds == {"attend", "leave", "charge", "deduct", "discount", "info", "balance"}

\* the dispatcher hands a command to handler p in this step, and p runs it up to
\* its first await or to its return
Accepted(p) ==
    /\ Accept(p)
    /\ \A q \in Procs \ {p} :
          pc'[q] = pc[q] /\ cmd'[q] = cmd[q] /\ result'[q] = result[q]

\* the step touches no row but that of identity a
OthersSame(a) ==
    /\ DOMAIN db' = (DOMAIN db) \cup {a}
    /\ \A x \in (DOMAIN db) \ {a} : db'[x] = db[x]

\* the step leaves the whole row of a as stored
RowSame(a) == a \in DOMAIN db /\ db'[a] = db[a]

\* the step changes the stored row of a by the daily rollover and nothing else
RowRolledOver(a) ==
    /\ a \in DOMAIN db
    /\ db'[a].balance = db[a].balance
    /\ db'[a].joined_at = db[a].joined_at
    /\ db'[a].total_time = db[a].total_time
    /\ db'[a].discount = db[a].discount
    /\ db'[a].today_date = today
    /\ db'[a].today_consumption =
          IF db[a].today_date = today THEN db[a].today_consumption ELSE 0

\* the balance every account had at start-up
InitialBalance(a) == IF a \in DOMAIN db0 THEN db0[a].balance ELSE 0

\* a is in a session that has outlasted the grace period
ActiveOwing(a) ==
    /\ a \in DOMAIN db
    /\ db[a].joined_at # None
    /\ now - db[a].joined_at > 120

\* ------------------------------------------------------------ C1
\* the outcomes a check-out reports once its sender is known
LeaveResults == {"ok_charged", "ok_free", "insufficient", "not_checked_in"}

\* C1: two check-outs of one ACTIVE account, launched together while the balance
\* covers exactly one fee (fee <= balance < 2 * fee): exactly one reports
\* success, the other reports a failure, and the balance is debited once.
C1_OneSuccess ==
    \A p, q \in Procs :
        LET a == qq[p]
            r == db0[a]
            F == RefFee(StartTime - r.joined_at, r.discount)
        IN  ( /\ p # q
              /\ started = 2 /\ now = StartTime
              /\ pc[p] = "idle" /\ pc[q] = "idle"
              /\ result[p] \in LeaveResults /\ result[q] \in LeaveResults
              /\ qq[q] = a /\ a \in DOMAIN db0
              /\ r.joined_at # None
              /\ 0 < F /\ F <= r.balance /\ r.balance < 2 * F )
            => /\ \/ result[p] = "ok_charged" /\ result[q] \in {"insufficient", "not_checked_in"}
                  \/ result[q] = "ok_charged" /\ result[p] \in {"insufficient", "not_checked_in"}
               /\ db[a].balance = r.balance - F

\* ------------------------------------------------------------ C2
\* C2: from the moment a check-in or check-out has read its account until it
\* has written it, no other handler completes a read or a write of the table.
C2_CriticalSection ==
    [][ \A p, q \in Procs :
            ( /\ p # q
              /\ cmd[p] \in {"attend", "leave"}
              /\ pc[p] \in {"upd_wait", "upd_cs"} )
            => ~(pc[q] \in {"get_cs", "upd_cs"} /\ pc'[q] # pc[q]) ]_vars

\* ------------------------------------------------------------ C3
\* C3: once every command has completed, each balance is the start-up balance
\* plus the credits reported, minus the debits reported, minus the fees reported.
C3_NoLostUpdate ==
    (\A p \in Procs : pc[p] = "idle") =>
        \A a \in DOMAIN db : db[a].balance = InitialBalance(a) + ledger[a]

\* ------------------------------------------------------------ C4
\* C4: every stored balance is >= 0 in every reachable state.
C4_BalanceNonNegative ==
    \A a \in DOMAIN db : db[a].balance >= 0

C4_Witness ==
    \E p \in Procs :
        /\ result[p] = "debit_insufficient"
        /\ \E q \in Procs : result[q] = "ok_charged" /\ db[qq[q]].balance = 0

\* ------------------------------------------------------------ C5
\* the check-out of p reads an ACTIVE account past the grace period whose
\* balance is below the fee
C5_Case(p) ==
    /\ GetStep(p, "leave")
    /\ ActiveOwing(qq[p])
    /\ db[qq[p]].balance < RefFee(now - db[qq[p]].joined_at, db[qq[p]].discount)

\* C5 (as amended): such a check-out reports InsufficientBalanceError and makes
\* no update call; balance, totalTime and checkedInAt stay as stored and the
\* account stays ACTIVE; todayConsumption stays as stored unless the stored
\* todayDate is not today, in which case getOrCreate resets it to 0.
C5_InsufficientIsNoOp ==
    [][ \A p \in Procs : C5_Case(p) =>
            /\ result'[p] = "insufficient"
            /\ pc'[p] = "idle"
            /\ RowRolledOver(qq[p])
            /\ OthersSame(qq[p]) ]_vars

\* C5 as stated: todayConsumption is unchanged as well
C5_Original ==
    [][ \A p \in Procs : C5_Case(p) =>
            /\ result'[p] = "insufficient"
            /\ pc'[p] = "idle"
            /\ RowRolledOver(qq[p])
            /\ db'[qq[p]].today_consumption = db[qq[p]].today_consumption ]_vars

C5_Witness ==
    \E p \in Procs :
        /\ result[p] = "insufficient"
        /\ db[qq[p]].joined_at # None
        /\ db[qq[p]].today_date # db0[qq[p]].today_date
        /\ db0[qq[p]].today_consumption > 0
        /\ db[qq[p]].today_consumption = 0
        /\ db[qq[p]].balance = db0[qq[p]].balance

\* ------------------------------------------------------------ C6
\* C6: the write of a charged check-out takes the stored row to balance - fee,
\* todayConsumption + fee, totalTime + duration, checkedInAt = None, all
\* computed from the values stored immediately before the write.
C6_ChargeStep ==
    [][ \A p \in Procs :
            (UpdStep(p, "leave") /\ result'[p] = "ok_charged") =>
                LET a == qq[p] IN
                /\ db'[a].balance = db[a].balance - final_fee[p]
                /\ db'[a].today_consumption = db[a].today_consumption + final_fee[p]
                /\ db'[a].total_time = db[a].total_time + duration[p]
                /\ db'[a].joined_at = None ]_vars

\* ------------------------------------------------------------ C7
\* the check-out of p reads an ACTIVE account still within the grace period
C7_Case(p) ==
    /\ GetStep(p, "leave")
    /\ qq[p] \in DOMAIN db
    /\ db[qq[p]].joined_at # None
    /\ now - db[qq[p]].joined_at <= 120

\* the write of a check-out that found the session within the grace period
C7_Write(p) ==
    (UpdStep(p, "leave") /\ duration[p] <= 120) =>
        /\ result'[p] = "ok_free"
        /\ db'[qq[p]] = [db[qq[p]] EXCEPT !.joined_at = None]
        /\ OthersSame(qq[p])

\* C7 (as amended): such a check-out goes on to an update that writes
\* checkedInAt = None and nothing else, so the account becomes IDLE whatever its
\* balance; balance and totalTime are never changed by it, and todayConsumption
\* only by the daily rollover of its getOrCreate (reset to 0 when the stored
\* todayDate is not today).
C7_GraceCheckout ==
    [][ \A p \in Procs :
            /\ C7_Case(p) =>
                  /\ pc'[p] = "upd_wait"
                  /\ updates'[p] = [joined_at |-> None]
                  /\ RowRolledOver(qq[p])
                  /\ OthersSame(qq[p])
            /\ C7_Write(p) ]_vars

\* C7 as stated: todayConsumption is left unchanged by the whole check-out
C7_Original ==
    [][ \A p \in Procs :
            /\ C7_Case(p) =>
                  /\ pc'[p] = "upd_wait"
                  /\ updates'[p] = [joined_at |-> None]
                  /\ db'[qq[p]].today_consumption = db[qq[p]].today_consumption
            /\ C7_Write(p) ]_vars

C7_Witness ==
    \E p \in Procs :
        /\ result[p] = "ok_free"
        /\ db[qq[p]].joined_at = None
        /\ db[qq[p]].balance = 0
        /\ db[qq[p]].total_time = 0

\* ------------------------------------------------------------ C8
\* the check-in of p reads an account that is ACTIVE
C8_Case(p) ==
    /\ GetStep(p, "attend")
    /\ qq[p] \in DOMAIN db
    /\ db[qq[p]].joined_at # None

\* C8 (as amended): a check-in on an ACTIVE account reports AlreadyActiveError
\* and makes no update call; checkedInAt, balance, totalTime and discount stay
\* as stored; todayDate and todayConsumption change only by the daily rollover
\* of its getOrCreate.
C8_AlreadyActive ==
    [][ \A p \in Procs : C8_Case(p) =>
            /\ result'[p] = "already_active"
            /\ pc'[p] = "idle"
            /\ RowRolledOver(qq[p])
            /\ OthersSame(qq[p]) ]_vars

\* C8 as stated: the account is left unchanged
C8_Original ==
    [][ \A p \in Procs : C8_Case(p) =>
            /\ result'[p] = "already_active"
            /\ pc'[p] = "idle"
            /\ RowSame(qq[p]) ]_vars

C8_Witness ==
    \E p \in Procs :
        /\ result[p] = "already_active"
        /\ now > StartTime
        /\ db[qq[p]].joined_at # None
        /\ db[qq[p]].joined_at = db0[qq[p]].joined_at

\* ------------------------------------------------------------ C9
\* C9: a check-out that reads an IDLE or unknown account reports
\* NotCheckedInError and makes no update call; a charge is only ever written to
\* an account that is ACTIVE, and there is at most one charge per check-in.
C9_ChargeOnlyOpenSession ==
    [][ \A p \in Procs :
            /\ ( /\ GetStep(p, "leave")
                 /\ (qq[p] \notin DOMAIN db \/ db[qq[p]].joined_at = None) )
               => (result'[p] = "not_checked_in" /\ pc'[p] = "idle")
            /\ (UpdStep(p, "leave") /\ result'[p] = "ok_charged")
               => /\ db[qq[p]].joined_at # None
                  /\ charges'[qq[p]] <= opened'[qq[p]] ]_vars

\* ------------------------------------------------------------ C10
FeeTableLaws ==
    LET d == fee_in.duration
        k == fee_in.discount
        f == fee_out[1]
        g == fee_out[2]
    IN  /\ f = RefFee(d, k)
        /\ f >= 0
        /\ g >= f
        /\ (d > 120 => ((g > f) <=> (d % 1800 = 0)))
        /\ (g > f => g - f = 3 * k)
        /\ (d = 2000 /\ k = 100 => f = 600)
        /\ (d = 2000 /\ k = 50 => f = 300)

\* C10 (as amended): the fee a check-out computes is 0 for a duration <= 120 s
\* and ceil(duration / 1800) * 3.0 * discount above it; it is never negative,
\* never decreases with the duration and, above the grace period, grows by one
\* unit exactly when the duration passes a multiple of 1800 s; 2000 s costs 6.0
\* (3.0 at discount 0.5), 120 s costs nothing and 125 s costs one unit, 3.0.
C10_FeeTable ==
    fee_out # <<>> =>
        /\ FeeTableLaws
        /\ (fee_in.duration = 120 => fee_out[1] = 0)
        /\ (fee_in.duration = 125 => fee_out[1] = 3 * fee_in.discount)

\* C10 as stated: the same laws, with a session of 125 s costing nothing
C10_Original ==
    fee_out # <<>> =>
        /\ FeeTableLaws
        /\ (fee_in.duration = 125 => fee_out[1] = 0)

C10_Witness ==
    /\ fee_out # <<>>
    /\ fee_in = [duration |-> 2000, discount |-> 50]
    /\ fee_out[1] = 300

\* ------------------------------------------------------------ C11
\* C11: 充值 x A followed by 扣款 x A with A > 0 and nothing in between succeeds
\* both times and leaves the row of x as getOrCreate found it: the balance is
\* exactly the original one and every other field is unchanged.
C11_RoundTrip ==
    trip.stage \in {"done", "refused"} =>
        /\ trip.stage = "done"
        /\ trip.table[TripAccount] = GetUserRow(trip.table0, TripAccount, today)

\* ------------------------------------------------------------ C12
\* the static administrator set
Administrators == {"2331103944", "87654321"}

\* the rate a rate token denotes, in percent
RefRate ==
    [tok \in {"50%", "0.5", "100%", "0", "-0.5", "150%"} |->
        CASE tok = "50%" -> 50
          [] tok = "0.5" -> 50
          [] tok = "100%" -> 100
          [] tok = "0" -> 0
          [] tok = "-0.5" -> 0 - 50
          [] tok = "150%" -> 150]

\* the 折扣 messages an administrator sends with a numeric target and a rate
\* that is a number
RatedEvents ==
    { e \in Events("discount", RateTokens) :
          /\ e[1] \in Administrators
          /\ Len(e[2]) = 3
          /\ e[2][2] = "10001"
          /\ e[2][3] \in DOMAIN RefRate }

\* the discount of every row, and the rate every set-discount in flight carries
C12_Range ==
    /\ \A a \in DOMAIN db : 0 < db[a].discount /\ db[a].discount <= 100
    /\ \A p \in Procs : cmd[p] = "discount" => (0 < arg[p] /\ arg[p] <= 100)

\* a rate of 0, below 0 or above 1 is refused; any other rate is taken as
\* given, "50%" and "0.5" alike
C12_Parse ==
    \A e \in RatedEvents :
        LET rate == RefRate[e[2][3]] IN
        IF 0 < rate /\ rate <= 100
        THEN cmd_discount_checks(e[1], e[2]) = "proceed" /\ ParseRate(e[2][3]) = rate
        ELSE cmd_discount_checks(e[1], e[2]) = "bad_rate"

C12_Step ==
    \A p \in Procs :
        \* an account is created with discount 1.0
        /\ \A c \in GetCmds :
              (GetStep(p, c) /\ qq[p] \notin DOMAIN db) => db'[qq[p]].discount = 100
        \* the rates are judged as C12_Parse says; a refused command stores nothing
        /\ (Accepted(p) /\ (cmd'[p] = "discount" \/ result'[p] = "bad_rate")) =>
              /\ C12_Parse
              /\ db' = db
        \* the accepted rate replaces the stored discount
        /\ (UpdStep(p, "discount") /\ qq[p] \in DOMAIN db) =>
              /\ result'[p] = "ok_discount"
              /\ db'[qq[p]] = [db[qq[p]] EXCEPT !.discount = arg[p]]
              /\ OthersSame(qq[p])

\* C12: every stored discount is in (0, 1]; an account is created with discount
\* 1.0; a set-discount with rate 0, a negative rate or a rate above 1 is refused
\* and stores nothing; an accepted one replaces the stored discount with exactly
\* the given rate ("50%" and 0.5 both give 0.5).
C12_Discount == C12_Range /\ [][C12_Range' /\ C12_Step]_vars

C12_Witness ==
    \E p, q \in Procs :
        /\ result[p] = "ok_discount"
        /\ result[q] = "bad_rate"
        /\ "10001" \in DOMAIN db0
        /\ db["10001"].discount = 50

\* ------------------------------------------------------------ C13
AdminCmds == {"charge", "deduct", "discount"}

\* every credit, debit and set-discount from a sender outside the administrator
\* set, the unresolved sender included, is refused for lack of permission
C13_Judged ==
    /\ \A w \in {"charge", "deduct"} : \A e \in Events(w, AmountTokens) :
            e[1] \notin Administrators => admin_op_checks(e[1], e[2]) = "denied"
    /\ \A e \in Events("discount", RateTokens) :
            e[1] \notin Administrators => cmd_discount_checks(e[1], e[2]) = "denied"

\* C13: credit, debit and set-discount from a caller outside the administrator
\* set (the empty identity included) fail with PermissionDeniedError and leave
\* the whole table unchanged: nothing is modified, no record is created, no
\* store call is made.
C13_PermissionDenied ==
    [][ \A p \in Procs :
            /\ (Accepted(p) /\ (result'[p] = "denied" \/ cmd'[p] \in AdminCmds))
                  => C13_Judged
            /\ (Accepted(p) /\ result'[p] = "denied")
                  => (db' = db /\ pc' = pc /\ lock' = lock) ]_vars

C13_Witness ==
    \E p \in Procs :
        /\ result[p] = "denied"
        /\ started = 1
        /\ db = db0
        /\ "10001" \notin DOMAIN db

\* ------------------------------------------------------------ C14
ValidationErrors == {"bad_format", "bad_qq", "bad_amount", "bad_rate"}

\* the amount an amount token denotes, in cents
RefAmount ==
    [tok \in {"3", "0", "-3"} |->
        CASE tok = "3" -> 300
          [] tok = "0" -> 0
          [] tok = "-3" -> 0 - 300]

\* the tokens that are an amount above 0, and those that are a rate in (0, 1]
GoodAmounts == {tok \in DOMAIN RefAmount : RefAmount[tok] > 0}
GoodRates == {tok \in DOMAIN RefRate : 0 < RefRate[tok] /\ RefRate[tok] <= 100}

\* what is wrong with the message m of an administrator, if anything: the
\* number of arguments, the target identity (digits only), or the value
RefDefect(m, good) ==
    IF Len(m) # 3 THEN "bad_format"
    ELSE IF m[2] \notin {"10001", "2331103944", "87654321"} THEN "bad_qq"
    ELSE IF m[3] \notin good THEN "bad_value"
    ELSE "proceed"

\* every malformed command of an administrator is refused by its handler's
\* checks, every well-formed one passes them
C14_Judged ==
    /\ \A w \in {"charge", "deduct"} : \A e \in Events(w, AmountTokens) :
          e[1] \in Administrators =>
              LET defect == RefDefect(e[2], GoodAmounts) IN
              admin_op_checks(e[1], e[2]) =
                  IF defect = "bad_value" THEN "bad_amount" ELSE defect
    /\ \A e \in Events("discount", RateTokens) :
          e[1] \in Administrators =>
              LET defect == RefDefect(e[2], GoodRates) IN
              cmd_discount_checks(e[1], e[2]) =
                  IF defect = "bad_value" THEN "bad_rate" ELSE defect

\* C14: an admin command refused with a validation error (number of arguments,
\* non-numeric target, amount not a number or <= 0, rate not a number or
\* outside (0, 1]) leaves the table as it was: the checks all come before the
\* first store call, so not even the target's record is created.
C14_ValidationNoWrite ==
    [][ \A p \in Procs :
            /\ (Accepted(p) /\ (result'[p] \in ValidationErrors \/ cmd'[p] \in AdminCmds))
                  => C14_Judged
            /\ (Accepted(p) /\ result'[p] \in ValidationErrors)
                  => (db' = db /\ pc' = pc /\ lock' = lock) ]_vars

C14_Witness ==
    \E p, q \in Procs :
        /\ result[p] = "bad_amount"
        /\ result[q] = "bad_qq"
        /\ started = 2
        /\ db = db0
        /\ "10001" \notin DOMAIN db

\* ------------------------------------------------------------ C15
\* C15: when getOrCreate loads an account whose stored todayDate is not today,
\* the persisted record and the returned one have todayDate = today and
\* todayConsumption = 0, with balance, totalTime, checkedInAt and discount as
\* stored; when the stored todayDate is today it changes nothing. The rollover
\* happens on load only: a change of the calendar day alone writes nothing.
C15_LazyRollover ==
    [][ /\ today' # today => db' = db
        /\ \A p \in Procs : \A c \in GetCmds :
              (GetStep(p, c) /\ qq[p] \in DOMAIN db) =>
                  LET a == qq[p] IN
                  /\ db' = [db EXCEPT ![a] =
                               IF db[a].today_date # today
                               THEN [db[a] EXCEPT !.today_date = today,
                                                  !.today_consumption = 0]
                               ELSE db[a]]
                  /\ pc'[p] = "upd_wait" => user'[p] = db'[a] ]_vars

C15_Witness ==
    \E p \in Procs :
        /\ pc[p] = "upd_wait"
        /\ today = 1
        /\ qq[p] \in DOMAIN db0
        /\ db0[qq[p]].today_consumption = 300
        /\ db[qq[p]] = [db0[qq[p]] EXCEPT !.today_date = 1, !.today_consumption = 0]
        /\ user[p] = db[qq[p]]

\* ------------------------------------------------------------ C16
QueryCmds == {"info", "balance", "list", "rank"}

\* handler p takes a step of a query: it is handed one, or it goes on with one
QueryStep(p) ==
    \/ Accepted(p) /\ cmd'[p] \in QueryCmds
    \/ cmd[p] \in QueryCmds /\ pc'[p] # pc[p]

\* the step leaves the table as getOrCreate(a) does: a missing record is
\* created with the default values, a record of another day is rolled over,
\* everything else stays
LoadedOnly(a) ==
    /\ OthersSame(a)
    /\ IF a \in DOMAIN db THEN RowRolledOver(a)
       ELSE db'[a] = [balance |-> 0, joined_at |-> None, total_time |-> 0,
                      today_date |-> today, today_consumption |-> 0,
                      discount |-> 100]

\* C16 (as amended): activeList and rank leave the account table unchanged;
\* info and balance change it only by the getOrCreate of the caller's account,
\* which creates the default record when there is none and applies the daily
\* rollover when the stored todayDate is not today; no other record and no
\* other field changes.
C16_Queries ==
    [][ \A p \in Procs :
            QueryStep(p) =>
                IF GetStep(p, "info") \/ GetStep(p, "balance")
                THEN LoadedOnly(qq[p]) /\ result'[p] = "ok_query"
                ELSE db' = db ]_vars

\* C16 as stated: no query changes the table
C16_Original ==
    [][ \A p \in Procs : QueryStep(p) => db' = db ]_vars

C16_Witness ==
    \E p, q \in Procs :
        /\ result[p] = "ok_query"
        /\ qq[p] \notin DOMAIN db0
        /\ db[qq[p]].today_date = today
        /\ result[q] = "ok_rank"

\* ------------------------------------------------------------ C17
\* C17: under fair scheduling every command that has started completes,
\* whatever its outcome, so no handler waits for the gate forever; and whenever
\* no command is in progress the gate is free.
C17_GateReleased ==
    /\ [](((\A p \in Procs : pc[p] = "idle")) => lock = NoProc)
    /\ \A p \in Procs : (pc[p] # "idle") ~> (pc[p] = "idle")

C17_Witness ==
    \E p, q \in Procs :
        /\ p # q
        /\ pc[p] = "upd_wait"
        /\ lock = q
        /\ pc[q] = "get_cs"

\* ------------------------------------------------------------ C18
\* two check-ins of one account that was IDLE at start-up have both completed
C18_Case(p, q) ==
    /\ p # q
    /\ started = 2
    /\ pc[p] = "idle" /\ pc[q] = "idle"
    /\ result[p] \in {"ok_attend", "already_active"}
    /\ result[q] \in {"ok_attend", "already_active"}
    /\ qq[p] = qq[q]
    /\ (qq[p] \in DOMAIN db0 => db0[qq[p]].joined_at = None)

\* exactly one of the two reports success, the other AlreadyActiveError
C18_Outcome ==
    \A p, q \in Procs :
        C18_Case(p, q) =>
            \/ result[p] = "ok_attend" /\ result[q] = "already_active"
            \/ result[q] = "ok_attend" /\ result[p] = "already_active"

\* C18: of two check-ins launched together for one IDLE account exactly one
\* reports success and the other AlreadyActiveError, and a checkedInAt that a
\* check-in has set is never overwritten by another check-in.
C18_OneCheckIn ==
    [][ /\ C18_Outcome'
        /\ \A p \in Procs :
              (UpdStep(p, "attend") /\ db[qq[p]].joined_at # None) =>
                  db'[qq[p]].joined_at = db[qq[p]].joined_at ]_vars

\* ------------------------------------------------------------ C19
\* the fields each command names in its update
NamedFields(c) ==
    CASE c = "attend" -> {{"joined_at"}}
      [] c = "charge" -> {{"balance"}}
      [] c = "deduct" -> {{"balance"}}
      [] c = "discount" -> {{"discount"}}
      [] c = "leave" -> {{"joined_at"},
                         {"balance", "today_consumption", "total_time", "joined_at"}}

\* C19: update writes the fields named in its changes and leaves every other
\* field as stored at the moment of the write, whatever the handler read
\* earlier: check-in writes checkedInAt only, credit and debit balance only,
\* set-discount discount only; no other record changes; on an identity without
\* a record it fails with NotFoundError and writes nothing.
C19_UpdateFrame ==
    [][ \A p \in Procs : \A c \in {"attend", "leave", "charge", "deduct", "discount"} :
            UpdStep(p, c) =>
                LET a == qq[p] IN
                IF a \notin DOMAIN db
                THEN db' = db /\ result'[p] = "not_found"
                ELSE /\ DOMAIN updates[p] \in NamedFields(c)
                     /\ \A f \in {"balance", "joined_at", "total_time", "today_date",
                                   "today_consumption", "discount"} :
                           db'[a][f] = IF f \in DOMAIN updates[p]
                                       THEN updates[p][f] ELSE db[a][f]
                     /\ OthersSame(a)
                     /\ result'[p] # "not_found" ]_vars

\* a check-in is about to write while the stored balance is no longer the one
\* it read
C19_Witness ==
    \E p \in Procs :
        /\ pc[p] = "upd_cs"
        /\ cmd[p] = "attend"
        /\ user[p].balance # db[qq[p]].balance

\* ------------------------------------------------------------ C20
\* C20: todayConsumption and totalTime are never negative; totalTime never
\* decreases and is the sum of the durations of the account's charged
\* check-outs; right after a load through getOrCreate, todayConsumption is the
\* sum of the fees of the charged check-outs debited on the stored todayDate.
C20_Totals ==
    [][ /\ \A a \in DOMAIN db' :
              /\ db'[a].today_consumption >= 0
              /\ db'[a].total_time >= 0
              /\ db'[a].total_time = billed'[a].time
              /\ a \in DOMAIN db => db'[a].total_time >= db[a].total_time
        /\ \A p \in Procs : \A c \in GetCmds :
              GetStep(p, c) =>
                  db'[qq[p]].today_consumption =
                      billed'[qq[p]].fees[db'[qq[p]].today_date] ]_vars

====
